---- MODULE Spec2Model ----
(***************************************************************************)
(* Model of the tick-driven scheduling and retry core of the mof-bot agent *)
(* (src/code/mof-bot/src/agent.py and src/code/mof-bot/src/cores/reply.py).*)
(*                                                                         *)
(* Time is counted in seconds.  datetime.now() is the variable `now`; it   *)
(* is advanced by the action Advance and is read once per handler.         *)
(* The external collaborators (language model, delivery client, account    *)
(* reader, operating system signals) are nondeterministic choices.         *)
(***************************************************************************)
EXTENDS Integers, Sequences, FiniteSets, TLC

VARIABLES
    now,                \* wall clock, seconds
    DEBUGGING,          \* os.getenv("DEBUGGING"), fixed for the run
    pc,                 \* position of the agent's main thread
    running,            \* agent.py: running
    heartbeat,          \* the heartbeat lock file: "absent", "self", "other"
    loaded,             \* the core units are loaded (load_cores)
    active,             \* ReplyCore.active
    shutdowns,          \* number of calls of cores.shutdown()
    scheduler_list,     \* agent.py: scheduler_list
    previous_post,      \* agent.py: previous_post
    scheduled_replies,  \* ReplyCore.scheduled_replies
    last_tweets,        \* ReplyCore.last_tweets
    last_check_time,    \* ReplyCore.last_check_time
    nextId,             \* identity of the next ReplyEvent object created
    attempts,           \* delivery attempts of the last handler at this clock reading
    generations,        \* content generations of the last handler at this clock reading
    polls,              \* latest posts the last poll found at this clock reading
    poll_log,           \* the accounts the last poll queried, and how each query ended
    propagated,         \* an exception has left a unit's _tick
    cycles,             \* elapsed and sleep time of the last cycle of the loop, ms
    ticked              \* the loops that ran a cycle at this clock reading

vars == <<now, DEBUGGING, pc, running, heartbeat, loaded, active, shutdowns,
          scheduler_list, previous_post, scheduled_replies,
          last_tweets, last_check_time, nextId, attempts, generations, polls,
          poll_log, propagated, cycles, ticked>>

----------------------------------------------------------------------------
(* Bounds of the model *)

MaxTime == 6600
MaxPosts == 2
MaxReplies == 2
MaxBackoff == 20
MaxIds == 3
MaxShutdowns == 2
MaxContextPosts == 3
MaxPollTime == 10800

(* Program constants *)

BackoffStart == 5
BackoffFactor == 2
max_retries == 3
MinDelay == 5
MaxDelay == 80
DebugDelay == 1
FirstReplyDelay == 60
SecondsPerMinute == 60

None == "None"
Accounts == <<"A", "B">>
TweetIds == {"101", "102"}
Texts == {"a"}
GenOutcomes == {None, ""} \cup Texts
SendOutcomes == {"ok", "TooManyRequests", "Error"}
Elapsed == {300, 5400}

\* Python truthiness of a content value: None and "" are falsy.
Truthy(c) == c # None /\ c # ""

----------------------------------------------------------------------------
(* ScheduledEvent (agent.py) *)

ScheduledEvent(event_time) ==
    [event_time |-> event_time, completed |-> FALSE,
     content |-> None, backoff_time |-> 0, delivered |-> FALSE]

NextBackoff(b) == IF b = 0 THEN BackoffStart ELSE b * BackoffFactor

\* ScheduledEvent.apply_backoff: the event's own time is pushed, not now.
PostApplyBackoff(e, t) ==
    [e EXCEPT !.backoff_time = NextBackoff(e.backoff_time),
              !.event_time = e.event_time + NextBackoff(e.backoff_time) * SecondsPerMinute]

GenerateAlways(e, gen) == [e EXCEPT !.content = gen]

\* execute, lines 137-140: content is created when the event has none.
PostGenerate(e, gen) ==
    IF ~Truthy(e.content) THEN [e EXCEPT !.content = gen] ELSE e

\* execute, line 143
PostDue(e, t) == e.event_time <= t /\ Truthy(e.content)

AlwaysCalled(dbg) == TRUE

\* execute, line 145, and _process_scheduled_replies, line 222: the delivery
\* client is called unless the debugging mode is on
DeliveryCalled(dbg) == ~dbg

\* The outcomes of the try block of execute: those of send_tweet, and
\* "LogError", send_tweet having returned and log_event or print after it
\* (lines 147-148) having raised.
PostOutcomes == SendOutcomes \cup {"LogError"}

\* The delivery client has accepted the content: it was called and returned.
Accepted(snd, dbg) == DeliveryCalled(dbg) /\ snd \in {"ok", "LogError"}

\* execute, lines 144-164, for an event that is due
PostSend(e, snd, t, dbg) ==
    LET d == [e EXCEPT !.delivered = e.delivered \/ Accepted(snd, dbg)]
    IN  IF snd = "ok"
        THEN [d EXCEPT !.completed = TRUE, !.backoff_time = 0]
        ELSE PostApplyBackoff(d, t)

\* One iteration of the loop of execute over an event.
ExecEvent(e, gen, snd, t, dbg) ==
    IF e.completed THEN e
    ELSE LET g == PostGenerate(e, gen)
         IN  IF PostDue(g, t) THEN PostSend(g, snd, t, dbg) ELSE g

\* The delivery attempt the iteration makes, if any.
ExecAttempts(i, e, gen, snd, t, dbg) ==
    IF e.completed THEN << >>
    ELSE LET g == PostGenerate(e, gen)
         IN  IF PostDue(g, t)
             THEN << [unit |-> "post", id |-> i, content |-> g.content,
                      due |-> g.event_time, at |-> t, outcome |-> snd,
                      called |-> DeliveryCalled(dbg), retries |-> None,
                      backoff |-> g.backoff_time, delivered |-> g.delivered,
                      removals |-> 0,
                      after |-> PostSend(g, snd, t, dbg)] >>
             ELSE << >>

RECURSIVE Flatten(_)
Flatten(ss) == IF ss = << >> THEN << >> ELSE Head(ss) \o Flatten(Tail(ss))

NeverActive(list) == FALSE

\* execute, line 167
HasActive(list) == \E i \in 1..Len(list) : ~list[i].completed

Max(a, b) == IF a >= b THEN a ELSE b
Min(a, b) == IF a <= b THEN a ELSE b

UnclampedDelay(raw, dbg) == IF dbg THEN DebugDelay ELSE raw

\* prepare_tweet_for_scheduling, lines 171-175: the clamped delay in minutes
delay_minutes(raw, dbg) ==
    IF dbg THEN DebugDelay ELSE Max(MinDelay, Min(MaxDelay, raw))

RawDelays == {0, 100}

SentNow(old, new) ==
    {i \in 1..Len(old) : new[i].completed /\ ~old[i].completed}

PreviousPostKept(old, new, prev) == prev

\* execute, line 152: the content sent last becomes the previous post
PreviousPostAfter(old, new, prev) ==
    IF SentNow(old, new) = {} THEN prev
    ELSE new[CHOOSE i \in SentNow(old, new) :
                 \A j \in SentNow(old, new) : j <= i].content

\* execute, lines 166-168 and prepare_tweet_for_scheduling
SchedulePost(list, raw, t, dbg) ==
    IF ~HasActive(list)
    THEN Append(list, ScheduledEvent(t + delay_minutes(raw, dbg) * SecondsPerMinute))
    ELSE list

\* execute, lines 137-140: the call of create_tweet_content the iteration
\* makes, if any, with the previous post it is given
ExecGenerations(i, e, gen, prev) ==
    IF e.completed \/ Truthy(e.content) THEN << >>
    ELSE << [unit |-> "post", id |-> i, prev |-> prev, content |-> gen] >>

\* The value of previous_post when the loop of execute reaches the i-th event.
PrevBefore(i, old, new, prev) ==
    PreviousPostAfter(SubSeq(old, 1, i - 1), SubSeq(new, 1, i - 1), prev)

\* tick, line 32: the interval of the loop, milliseconds
TICK == 1000

SleepUnclamped(elapsed) == TICK - elapsed

\* tick, lines 213-214: the sleep after a cycle that took elapsed milliseconds
time_sleep(elapsed) == Max(0, TICK - elapsed)

\* The time a cycle can take, milliseconds: within the interval, exactly
\* the interval, and overrunning it.
CycleTimes == {0, 400, 1000, 2500}

\* tick, lines 204-215: one cycle of the loop, execute and the sleep after it
ExecuteWith(gens, raws, times, posts, sends) ==
    /\ pc = "execute"
    /\ ticked' = ticked \cup {"post"}
    /\ \E gen \in gens, snd \in sends, raw \in raws :
         LET list1 == [i \in 1..Len(scheduler_list) |->
                          ExecEvent(scheduler_list[i], gen, snd, now, DEBUGGING)]
             att == Flatten([i \in 1..Len(scheduler_list) |->
                          ExecAttempts(i, scheduler_list[i], gen, snd, now, DEBUGGING)])
             list2 == SchedulePost(list1, raw, now, DEBUGGING)
         IN  /\ DEBUGGING => snd = "ok"
             /\ \A i \in 1..Len(att) :
                   snd # "ok" => att[i].backoff < MaxBackoff
             /\ Len(list2) <= posts
             /\ scheduler_list' = list2
             /\ previous_post' = PreviousPostAfter(scheduler_list, list1, previous_post)
             /\ attempts' = att
             /\ generations' = Flatten([i \in 1..Len(scheduler_list) |->
                    ExecGenerations(i, scheduler_list[i], gen,
                        PrevBefore(i, scheduler_list, list1, previous_post))])
    /\ \E elapsed \in times :
         cycles' = << [elapsed |-> elapsed, sleep |-> time_sleep(elapsed)] >>
    /\ pc' = "loop"
    /\ UNCHANGED <<now, DEBUGGING, running, heartbeat, loaded, active, shutdowns,
                   scheduled_replies, last_tweets, last_check_time, nextId, polls,
                   poll_log, propagated>>

Execute == ExecuteWith(GenOutcomes, RawDelays, CycleTimes, MaxPosts, PostOutcomes)

----------------------------------------------------------------------------
(* ReplyEvent and ReplyCore (cores/reply.py) *)

DebugCheckInterval == 15
ProdCheckInterval == 5400
DebugReplyInterval == 10
ProdReplyInterval == 600

\* ReplyCore.__init__, line 60: last_check_time = None
NoTime == -1

\* ReplyCore.__init__, lines 58-59
check_interval(dbg) == IF dbg THEN DebugCheckInterval ELSE ProdCheckInterval
reply_interval(dbg) == IF dbg THEN DebugReplyInterval ELSE ProdReplyInterval

ReplyGenOutcomes == {None, "a"}
PollOutcomes == {"NoData", "TooManyRequests", "Error"} \cup TweetIds
AccountSet == {Accounts[i] : i \in 1..Len(Accounts)}

ReplyEvent(id, account, tweet_id, content, scheduled_time) ==
    [id |-> id, target_account |-> account, tweet_id |-> tweet_id,
     content |-> content, scheduled_time |-> scheduled_time,
     completed |-> FALSE, retries |-> 0, backoff_time |-> 0,
     delivered |-> FALSE]

ReplyBackoffFlat(b) == BackoffStart

\* ReplyEvent.apply_backoff, lines 45-48
ReplyNextBackoff(b) == IF b = 0 THEN BackoffStart ELSE b * BackoffFactor

\* ReplyEvent.apply_backoff
ReplyApplyBackoff(e, t) ==
    [e EXCEPT !.backoff_time = ReplyNextBackoff(e.backoff_time),
              !.scheduled_time = t + ReplyNextBackoff(e.backoff_time) * SecondsPerMinute,
              !.retries = e.retries + 1]

RECURSIVE MaxScheduled(_)
MaxScheduled(list) ==
    IF Len(list) = 1 THEN list[1].scheduled_time
    ELSE Max(list[1].scheduled_time, MaxScheduled(Tail(list)))

ScheduleFromNow(list, t, dbg) == t + FirstReplyDelay

\* ReplyCore._schedule_reply, lines 196-200
schedule_time(list, t, dbg) ==
    IF list # << >>
    THEN MaxScheduled(list) + reply_interval(dbg)
    ELSE t + FirstReplyDelay

\* ReplyCore._schedule_reply
ScheduleReply(list, id, account, tweet_id, content, t, dbg) ==
    Append(list, ReplyEvent(id, account, tweet_id, content,
                            schedule_time(list, t, dbg)))

AlwaysNew(last, account, tweet_id) == TRUE

NewOnlyWhenSeenBefore(last, account, tweet_id) ==
    last[account] # None /\ tweet_id # last[account]

\* ReplyCore._check_new_tweets, lines 182-183
IsNewTweet(last, account, tweet_id) ==
    last[account] = None \/ tweet_id # last[account]

\* What a poll that found a latest post for an account saw and did: the
\* id last seen before, and the reply it scheduled (reply 0: none).
PollRecord(account, tweet_id, last, t, reply, time) ==
    [account |-> account, tweet_id |-> tweet_id, last |-> last, at |-> t,
     reply |-> reply, time |-> time]

EndsRoundOnAnyError(o) == o \in {"TooManyRequests", "Error"}

\* ReplyCore._check_new_tweets, lines 187-189: a rate limit breaks the loop
EndsRound(o) == o = "TooManyRequests"

\* How the query of an account ended: it returned, or raised this error.
QueryEnd(o) == IF o \in {"TooManyRequests", "Error"} THEN o ELSE "returned"

\* ReplyCore._check_new_tweets: the loop over the accounts from the i-th on.
\* st = [list, last, id, polls, gens, log]; poll and gen give each account's
\* outcome.
RECURSIVE CheckNewTweets(_, _, _, _, _, _)
CheckNewTweets(i, st, poll, gen, t, dbg) ==
    IF i > Len(Accounts) THEN st
    ELSE LET a == Accounts[i]
             o == poll[a]
             sl == [st EXCEPT !.log = Append(st.log,
                                   [account |-> a, outcome |-> QueryEnd(o)])]
         IN  IF EndsRound(o) THEN sl
             ELSE IF o \in {"NoData", "Error"}
             THEN CheckNewTweets(i + 1, sl, poll, gen, t, dbg)
             ELSE IF IsNewTweet(st.last, a, o)
             THEN CheckNewTweets(i + 1,
                      [list |-> ScheduleReply(st.list, st.id, a, o, gen[a], t, dbg),
                       last |-> [st.last EXCEPT ![a] = o],
                       id |-> st.id + 1,
                       polls |-> Append(st.polls,
                           PollRecord(a, o, st.last[a], t, st.id,
                                      schedule_time(st.list, t, dbg))),
                       gens |-> Append(st.gens,
                           [unit |-> "reply", id |-> st.id, prev |-> None,
                            content |-> gen[a]]),
                       log |-> sl.log],
                      poll, gen, t, dbg)
             ELSE CheckNewTweets(i + 1,
                      [sl EXCEPT !.polls = Append(st.polls,
                           PollRecord(a, o, st.last[a], t, 0, NoTime))],
                      poll, gen, t, dbg)

PollAlways(last_check, t, dbg) == TRUE

\* ReplyCore._tick, lines 123-124
PollDue(last_check, t, dbg) ==
    last_check = NoTime \/ t - last_check >= check_interval(dbg)

\* ReplyCore._process_scheduled_replies, line 220
ReplyDue(e, t) == ~e.completed /\ t >= e.scheduled_time

\* ReplyCore._process_scheduled_replies, lines 233-235: only last_error, a
\* diagnostic string that nothing reads, is set
ReplyOnError(e, t) == e

RemoveEvent(list, e) == SelectSeq(list, LAMBDA x : x # e)

ExhaustedLate(e) == e.retries > max_retries

\* ReplyCore._process_scheduled_replies, line 236
ReplyExhausted(e) == e.retries >= max_retries

\* ReplyCore._process_scheduled_replies: the loop over the copy of the list
\* from its i-th event on.  st = [list, att, raised]; a second removal
\* of the same event raises ValueError, which ends the loop.
RECURSIVE ProcessReplies(_, _, _, _, _, _)
ProcessReplies(i, copy, st, snd, t, dbg) ==
    IF i > Len(copy) \/ st.raised THEN st
    ELSE LET e == copy[i]
             o == snd[i]
             due == ReplyDue(e, t)
             e1 == IF ~due THEN e
                   ELSE IF o = "ok"
                   THEN [e EXCEPT !.completed = TRUE,
                                  !.delivered = DeliveryCalled(dbg)]
                   ELSE IF o = "TooManyRequests" THEN ReplyApplyBackoff(e, t)
                   ELSE ReplyOnError(e, t)
             sent == due /\ o = "ok"
             att1 == IF due
                     THEN Append(st.att,
                            [unit |-> "reply", id |-> e.id, content |-> e.content,
                             due |-> e.scheduled_time, at |-> t, outcome |-> o,
                             called |-> DeliveryCalled(dbg), retries |-> e.retries,
                             backoff |-> e.backoff_time, delivered |-> e.delivered,
                             removals |-> (IF sent THEN 1 ELSE 0)
                                          + (IF ReplyExhausted(e1) THEN 1 ELSE 0),
                             after |-> e1])
                     ELSE st.att
             pos == CHOOSE k \in 1..Len(st.list) : st.list[k] = e
             list1 == IF sent THEN RemoveEvent(st.list, e)
                      ELSE [st.list EXCEPT ![pos] = e1]
             exhausted == ReplyExhausted(e1)
         IN  ProcessReplies(i + 1, copy,
                 [list |-> IF exhausted THEN RemoveEvent(list1, e1) ELSE list1,
                  att |-> att1,
                  raised |-> exhausted /\ sent],
                 snd, t, dbg)

PollChoices(dbg) ==
    IF dbg THEN {"NoData"} \cup TweetIds ELSE PollOutcomes

SendChoices(dbg) == IF dbg THEN {"ok"} ELSE SendOutcomes

\* ReplyCore._tick, lines 123-126: the poll, when it is due
TickPoll(st0, t, dbg) ==
    IF PollDue(last_check_time, t, dbg)
    THEN {CheckNewTweets(1, st0, poll, gen, t, dbg) :
             poll \in [AccountSet -> PollChoices(dbg)],
             gen \in [AccountSet -> ReplyGenOutcomes]}
    ELSE {st0}

\* The exceptions raised inside a tick: by the queries of the poll, by the
\* deliveries, and by a second removal of an event.
TickErrors(log, att, raised) ==
    {<<"poll", log[k].outcome>> : k \in {j \in 1..Len(log) : log[j].outcome # "returned"}}
    \cup {<<"send", att[k].outcome>> : k \in {j \in 1..Len(att) : att[j].outcome # "ok"}}
    \cup (IF raised THEN {<<"remove", "ValueError">>} ELSE {})

CaughtRateLimitOnly(where, kind) == kind = "TooManyRequests"

\* Every raise site of the tick is inside a try with an `except Exception`
\* clause: _check_new_tweets, line 190; _process_scheduled_replies, line 233;
\* _tick, line 131.
CaughtInTick(where, kind) ==
    kind \in {"TooManyRequests", "Error", "ValueError"}

\* ReplyCore._tick, called by the core manager for an active unit
ReplyTick ==
    /\ loaded /\ active
    /\ "reply" \notin ticked
    /\ ticked' = ticked \cup {"reply"}
    /\ \E st1 \in TickPoll([list |-> scheduled_replies, last |-> last_tweets,
                            id |-> nextId, polls |-> << >>, gens |-> << >>,
                            log |-> << >>],
                           now, DEBUGGING) :
         /\ Len(st1.list) <= MaxReplies
         /\ st1.id <= MaxIds + 1
         /\ \E snd \in [1..Len(st1.list) -> SendChoices(DEBUGGING)] :
              LET st2 == ProcessReplies(1, st1.list,
                             [list |-> st1.list, att |-> << >>, raised |-> FALSE],
                             snd, now, DEBUGGING)
              IN  /\ scheduled_replies' = st2.list
                  /\ attempts' = st2.att
                  /\ propagated' =
                        (propagated \/ \E err \in TickErrors(st1.log, st2.att, st2.raised) :
                                          ~CaughtInTick(err[1], err[2]))
         /\ last_tweets' = st1.last
         /\ nextId' = st1.id
         /\ polls' = st1.polls
         /\ poll_log' = st1.log
         /\ generations' = st1.gens
    /\ last_check_time' = IF PollDue(last_check_time, now, DEBUGGING)
                          THEN now ELSE last_check_time
    /\ UNCHANGED <<now, DEBUGGING, pc, running, heartbeat, loaded, active,
                   shutdowns, scheduler_list, previous_post, cycles>>

----------------------------------------------------------------------------
(* Core manager (cores/avbcore_manager.py) and the agent's startup *)

\* AVBCoreManager.start_heartbeat: fails when the lock file exists.
start_heartbeat_ok(lock) == lock = "absent"

ShutdownToggles ==
    /\ active' = ~active
    /\ scheduled_replies' = << >>
    /\ last_tweets' = [a \in AccountSet |-> None]

\* ReplyCore.shutdown: deactivate, clear the pending replies and last_tweets
ReplyShutdown ==
    /\ active' = FALSE
    /\ scheduled_replies' = << >>
    /\ last_tweets' = [a \in AccountSet |-> None]

\* AVBCoreManager.shutdown: shut every unit down, then remove the lock file.
ManagerShutdown ==
    /\ ReplyShutdown
    /\ heartbeat' = "absent"
    /\ shutdowns' = shutdowns + 1

HeartbeatErrorIgnored(ok) == "load"

\* agent.py, lines 58-63: sys.exit(1) on AVBCoreHeartbeatError
AfterHeartbeat(ok) == IF ok THEN "load" ELSE "exit1"

LockReleasedOnRefusal(lock) == "absent"

\* agent.py, lines 60-63: the handler of AVBCoreHeartbeatError prints and
\* exits; it does not call cores.shutdown(), so the lock file stays
LockAfterRefusal(lock) == lock

\* agent.py, lines 58-63: start_heartbeat, with sys.exit(1) on error
StartHeartbeat ==
    /\ pc = "heartbeat"
    /\ pc' = AfterHeartbeat(start_heartbeat_ok(heartbeat))
    /\ heartbeat' = IF start_heartbeat_ok(heartbeat) THEN "self"
                    ELSE LockAfterRefusal(heartbeat)
    /\ UNCHANGED <<now, DEBUGGING, running, loaded, active, shutdowns,
                   scheduler_list, previous_post, scheduled_replies, last_tweets,
                   last_check_time, nextId, attempts, generations, polls,
                   poll_log, propagated, cycles, ticked>>

LoadErrorIgnored(ok) == "start"

\* agent.py, lines 66-77: sys.exit(1) on an error of load_cores
AfterLoad(ok) == IF ok THEN "start" ELSE "exit1"

\* agent.py, lines 66-77: load_cores, with shutdown and sys.exit(1) on error
LoadCores ==
    /\ pc = "load"
    /\ \/ /\ loaded' = TRUE
          /\ pc' = AfterLoad(TRUE)
          /\ UNCHANGED <<heartbeat, active, shutdowns, scheduled_replies, last_tweets>>
       \/ /\ shutdowns < MaxShutdowns
          /\ ManagerShutdown
          /\ pc' = AfterLoad(FALSE)
          /\ UNCHANGED loaded
    /\ UNCHANGED <<now, DEBUGGING, running, scheduler_list, previous_post,
                   last_check_time, nextId, attempts, generations, polls,
                   poll_log, propagated, cycles, ticked>>

\* AVBCoreManager.start_cores: a unit is marked active only when its
\* initialize() succeeded; a failure is not propagated.
StartedActive(ok) == ok

\* agent.py, lines 80-105: start_cores (ReplyCore.initialize, lines 65-75),
\* running = True, the signal handler is installed
StartCoresWith(oks) ==
    /\ pc = "start"
    /\ \E ok \in oks :
         /\ active' = StartedActive(ok)
         /\ last_check_time' = IF ok THEN now ELSE last_check_time
    /\ running' = TRUE
    /\ pc' = "loop"
    /\ UNCHANGED <<now, DEBUGGING, heartbeat, loaded, shutdowns,
                   scheduler_list, previous_post, scheduled_replies, last_tweets,
                   nextId, attempts, generations, polls, poll_log, propagated, cycles, ticked>>

StartCores == StartCoresWith(BOOLEAN)

\* tick, line 203: the loop tests running at the start of every cycle
LoopCheck ==
    /\ pc = "loop"
    /\ running => "post" \notin ticked
    /\ pc' = IF running THEN "execute" ELSE "done"
    /\ UNCHANGED <<now, DEBUGGING, running, heartbeat, loaded, active, shutdowns,
                   scheduler_list, previous_post, scheduled_replies,
                   last_tweets, last_check_time, nextId, attempts, generations,
                   polls, poll_log, propagated, cycles, ticked>>

\* signal_handler, lines 93-103: runs between two steps of the main thread
SignalHandler ==
    /\ pc \in {"loop", "execute"}
    /\ shutdowns < MaxShutdowns
    /\ ManagerShutdown
    /\ running' = FALSE
    /\ UNCHANGED <<now, DEBUGGING, pc, loaded, scheduler_list,
                   previous_post, last_check_time, nextId, attempts, generations,
                   polls, poll_log, propagated, cycles, ticked>>

\* The wall clock moves on.  Both loops run at a cadence of a second, so
\* each has run a cycle before a later clock reading is seen.
AdvanceBy(steps, limit) ==
    /\ pc \in {"loop", "execute"}
    /\ pc = "execute" => "post" \in ticked
    /\ (pc = "loop" /\ running) => "post" \in ticked
    /\ active => "reply" \in ticked
    /\ ticked' = {}
    /\ \E d \in steps :
         /\ now + d <= limit
         /\ now' = now + d
    /\ attempts' = << >>
    /\ generations' = << >>
    /\ polls' = << >>
    /\ poll_log' = << >>
    /\ UNCHANGED <<DEBUGGING, pc, running, heartbeat, loaded, active, shutdowns,
                   scheduler_list, previous_post, scheduled_replies,
                   last_tweets, last_check_time, nextId, cycles, propagated>>

Advance == AdvanceBy(Elapsed, MaxTime)

Init ==
    /\ now = 0
    /\ DEBUGGING \in BOOLEAN
    /\ pc = "heartbeat"
    /\ running = FALSE
    /\ heartbeat \in {"absent", "other"}
    /\ loaded = FALSE
    /\ active = FALSE
    /\ shutdowns = 0
    /\ scheduler_list = << >>
    /\ previous_post = ""
    /\ scheduled_replies = << >>
    /\ last_tweets = [a \in AccountSet |-> None]
    /\ last_check_time = NoTime
    /\ nextId = 1
    /\ attempts = << >>
    /\ generations = << >>
    /\ polls = << >>
    /\ poll_log = << >>
    /\ propagated = FALSE
    /\ cycles = << >>
    /\ ticked = {}

Next ==
    \/ StartHeartbeat
    \/ LoadCores
    \/ StartCores
    \/ LoopCheck
    \/ Execute
    \/ SignalHandler
    \/ ReplyTick
    \/ Advance

Spec == Init /\ [][Next]_vars

\* The poster and the replier share no state.  Each is checked in the whole
\* program with the other one idle: the poster with a replier whose
\* initialize() failed, the replier with a poster whose language model is
\* down and whose delay draw is the smallest.
NextPoster ==
    \/ StartHeartbeat
    \/ LoadCores
    \/ StartCoresWith({FALSE})
    \/ LoopCheck
    \/ ExecuteWith(GenOutcomes, RawDelays, {0}, MaxPosts, SendOutcomes)
    \/ SignalHandler
    \/ Advance

SpecPoster == Init /\ [][NextPoster]_vars

NextReplier ==
    \/ StartHeartbeat
    \/ LoadCores
    \/ StartCoresWith({TRUE})
    \/ LoopCheck
    \/ ExecuteWith({None}, {0}, {0}, MaxPosts, SendOutcomes)
    \/ SignalHandler
    \/ ReplyTick
    \/ Advance

SpecReplier == Init /\ [][NextReplier]_vars

\* The timing of the loop, with cycles of every length; the poster's language
\* model is down and the replier idle.
NextTiming ==
    \/ StartHeartbeat
    \/ LoadCores
    \/ StartCoresWith({FALSE})
    \/ LoopCheck
    \/ ExecuteWith({None}, {0}, CycleTimes, MaxPosts, SendOutcomes)
    \/ SignalHandler
    \/ Advance

SpecTiming == Init /\ [][NextTiming]_vars

\* The texts of a language model that answers every call.
ContextTexts == {"a", "b"}

\* The hand-over of the previous post from one post to the next, over three
\* posts with two different texts; the delay draw is the smallest and the
\* replier idle.
NextContext ==
    \/ StartHeartbeat
    \/ LoadCores
    \/ StartCoresWith({FALSE})
    \/ LoopCheck
    \/ ExecuteWith(ContextTexts, {0}, {0}, MaxContextPosts, SendOutcomes)
    \/ SignalHandler
    \/ Advance

SpecContext == Init /\ [][NextContext]_vars

\* The poster with a try block of execute that can also fail after
\* send_tweet has returned; the language model answers every call, the delay
\* draw is the smallest and the replier idle.
NextDelivery ==
    \/ StartHeartbeat
    \/ LoadCores
    \/ StartCoresWith({FALSE})
    \/ LoopCheck
    \/ ExecuteWith(Texts, {0}, {0}, MaxPosts, PostOutcomes)
    \/ SignalHandler
    \/ Advance

SpecDelivery == Init /\ [][NextDelivery]_vars

\* Two polls of the replier outside the debugging mode, which are 5400 s
\* apart: the clock is read every 5400 s; the poster's language model is
\* down.
NextPolling ==
    \/ StartHeartbeat
    \/ LoadCores
    \/ StartCoresWith({TRUE})
    \/ LoopCheck
    \/ ExecuteWith({None}, {0}, {0}, MaxPosts, SendOutcomes)
    \/ SignalHandler
    \/ ReplyTick
    \/ AdvanceBy({ProdCheckInterval}, MaxPollTime)

SpecPolling == Init /\ [][NextPolling]_vars

----------------------------------------------------------------------------
(* Properties *)

AttemptSet == {attempts[i] : i \in 1..Len(attempts)}

RECURSIVE Pow2(_)
Pow2(n) == IF n = 0 THEN 1 ELSE 2 * Pow2(n - 1)

\* The number of failed deliveries a backoff of b minutes stands for:
\* 0, 5, 10, 20, ... are 0, 1, 2, 3, ... failures.
RECURSIVE FailuresOf(_)
FailuresOf(b) ==
    IF b = 0 THEN 0
    ELSE IF b <= BackoffStart THEN 1
    ELSE 1 + FailuresOf(b \div 2)

DueOf(a) ==
    IF a.unit = "post" THEN a.after.event_time ELSE a.after.scheduled_time

PostsKeep(kept) ==
    \A i \in 1..Len(scheduler_list) :
        scheduler_list[i].content \in kept =>
            /\ i <= Len(scheduler_list')
            /\ scheduler_list'[i].content = scheduler_list[i].content

RepliesKeep(kept) ==
    \A i \in 1..Len(scheduled_replies) :
        \A j \in 1..Len(scheduled_replies') :
            /\ scheduled_replies'[j].id = scheduled_replies[i].id
            /\ scheduled_replies[i].content \in kept
            => scheduled_replies'[j].content = scheduled_replies[i].content

NotNone == GenOutcomes \ {None}
NonEmpty == {c \in GenOutcomes : Truthy(c)}

\* C1 as stated: once an action's content is not null, no later step
\* regenerates or overwrites it.
C1_ContentNeverOverwritten ==
    [][PostsKeep(NotNone) /\ RepliesKeep(NotNone)]_vars

\* C1, amended: once an action's content is a non-empty text, no later step
\* regenerates or overwrites it, however many ticks see the action before
\* it is due.
C1_NonEmptyContentKept ==
    [][PostsKeep(NonEmpty) /\ RepliesKeep(NonEmpty)]_vars

\* C1 witness: a post that has its content, is not yet due, and has been seen
\* by a tick at a later clock reading than the one it was created at.
C1_ContentReadyBeforeDue ==
    \E i \in 1..Len(scheduler_list) :
        /\ Truthy(scheduler_list[i].content)
        /\ ~scheduler_list[i].completed
        /\ scheduler_list[i].event_time > now
        /\ now > 0
        /\ "post" \in ticked

\* C2: the k-th failed delivery of an action leaves backoff 5*2^(k-1), and a
\* successful delivery leaves the action completed with its retry count
\* (for a post: its backoff) reset to 0.
C2_BackoffSequenceThenReset ==
    \A a \in AttemptSet :
        /\ (a.unit = "reply" /\ a.outcome # "ok") =>
               a.after.backoff_time = BackoffStart * Pow2(a.retries)
        /\ (a.unit = "post" /\ a.outcome # "ok") =>
               a.after.backoff_time = BackoffStart * Pow2(FailuresOf(a.backoff))
        /\ (a.unit = "reply" /\ a.outcome = "ok") =>
               a.after.completed /\ a.after.retries = 0
        /\ (a.unit = "post" /\ a.outcome = "ok") =>
               a.after.completed /\ a.after.backoff_time = 0

\* C3: an action that has failed max_retries deliveries is no longer in its
\* registry, and no delivery is attempted for it.
C3_ExhaustedRemovedNeverRetried ==
    /\ \A i \in 1..Len(scheduler_list) :
           FailuresOf(scheduler_list[i].backoff_time) < max_retries
    /\ \A i \in 1..Len(scheduled_replies) :
           scheduled_replies[i].retries < max_retries
    /\ \A a \in AttemptSet :
           IF a.unit = "post" THEN FailuresOf(a.backoff) < max_retries
           ELSE a.retries < max_retries

\* C4: every failed delivery attempt moves the action's due time past the
\* time of the attempt and, for a reply, increments its retry count.
C4_FailureAppliesBackoff ==
    \A a \in AttemptSet :
        a.outcome # "ok" =>
            /\ DueOf(a) > a.at
            /\ a.unit = "reply" => a.after.retries = a.retries + 1

\* C5: a failed delivery at time now leaves backoff' = 5 if backoff was 0,
\* else 2 * backoff, due' = now + backoff' minutes, retry_count' =
\* retry_count + 1, and completed = false.
C5_ApplyBackoffContract ==
    \A a \in AttemptSet :
        a.outcome # "ok" =>
            LET b == IF a.backoff = 0 THEN BackoffStart ELSE a.backoff * BackoffFactor
            IN  /\ a.after.backoff_time = b
                /\ DueOf(a) = a.at + b * SecondsPerMinute
                /\ ~a.after.completed
                /\ a.unit = "reply" => a.after.retries = a.retries + 1

\* C6: while a tick of this instance is in flight the heartbeat lock the
\* instance created is present.
C6_LockHeldWhileTicking ==
    pc = "execute" => heartbeat = "self"

\* C7: an instance started while the heartbeat lock exists goes from
\* start_heartbeat to exit code 1: no unit is loaded or started, no tick
\* runs, nothing is scheduled.
C7_SecondInstanceRefused ==
    heartbeat = "other" =>
        /\ pc \in {"heartbeat", "exit1"}
        /\ ~loaded /\ ~active /\ ~running
        /\ ticked = {} /\ scheduler_list = << >> /\ scheduled_replies = << >>

\* C7 witness: the instance found the lock and has exited with code 1.
C7_RefusedAndExited ==
    pc = "exit1" /\ heartbeat = "other"

\* C8: shutdown() of the core manager is called only once the loop has seen
\* the stop flag and ended (or startup failed); never while a cycle can
\* still run.
C8_ShutdownOnlyAfterLoopExit ==
    shutdowns > 0 => pc \in {"done", "exit1"}

\* C9: at a tick boundary no registry holds a completed action or one whose
\* retry count is above the maximum.
C9_RegistryHoldsOnlyLiveActions ==
    pc = "loop" =>
        /\ \A i \in 1..Len(scheduler_list) : ~scheduler_list[i].completed
        /\ \A i \in 1..Len(scheduled_replies) :
               /\ ~scheduled_replies[i].completed
               /\ scheduled_replies[i].retries <= max_retries

\* C10: a delivery is attempted (or an action marked completed) only with
\* content that is not null and at or after the action's due time.
C10_SendOnlyReadyAndDue ==
    \A a \in AttemptSet : a.content # None /\ a.due <= a.at

----------------------------------------------------------------------------
(* Scheduling of posts and replies *)

\* A step that is a cycle of the poster: execute has run.
PosterTick == pc = "execute" /\ pc' = "loop"

\* A step that is a tick of the replier.
ReplierTick == "reply" \notin ticked /\ "reply" \in ticked'

\* The post a cycle of the poster appended to its registry.
NewPost == scheduler_list'[Len(scheduler_list')]

NewPostCreated ==
    /\ Len(scheduler_list') = Len(scheduler_list) + 1
    /\ SubSeq(scheduler_list', 1, Len(scheduler_list)) = scheduler_list
    /\ ~NewPost.completed /\ NewPost.content = None /\ NewPost.backoff_time = 0

\* C11 as stated: a poster tick that finds no non-completed action in the
\* registry creates exactly one new action, due between now + 5 minutes and
\* now + 80 minutes.
C11_NewPostWithinDelayRange ==
    [][(PosterTick /\ ~HasActive(scheduler_list)) =>
          /\ NewPostCreated
          /\ NewPost.event_time >= now + MinDelay * SecondsPerMinute
          /\ NewPost.event_time <= now + MaxDelay * SecondsPerMinute]_vars

\* C11, amended: a poster tick that finds no non-completed action in the
\* registry creates exactly one new action; outside the debugging mode it is
\* due between now + 5 minutes and now + 80 minutes, in the debugging mode
\* at now + 1 minute.
C11_NewPostDelayByMode ==
    [][(PosterTick /\ ~HasActive(scheduler_list)) =>
          /\ NewPostCreated
          /\ ~DEBUGGING =>
                 /\ NewPost.event_time >= now + MinDelay * SecondsPerMinute
                 /\ NewPost.event_time <= now + MaxDelay * SecondsPerMinute
          /\ DEBUGGING =>
                 NewPost.event_time = now + DebugDelay * SecondsPerMinute]_vars

\* C11 witness: outside the debugging mode the first tick has found the
\* registry empty and created the first post, at the upper end of the range.
C11_FirstPostScheduled ==
    /\ ~DEBUGGING /\ pc = "loop" /\ "post" \in ticked
    /\ Len(scheduler_list) = 1
    /\ scheduler_list[1].event_time = now + MaxDelay * SecondsPerMinute

ActivePosts == {i \in 1..Len(scheduler_list) : ~scheduler_list[i].completed}

\* C12: the poster's registry never holds more than one non-completed
\* action; once a poster tick has ended it holds exactly one; and the tick
\* that sends an action appends its successor.
C12_SinglePendingPost ==
    /\ [](Cardinality(ActivePosts) <= 1)
    /\ []((("post" \in ticked /\ pc = "loop") \/ scheduler_list # << >>) =>
              Cardinality(ActivePosts) = 1)
    /\ [][(PosterTick /\ SentNow(scheduler_list, scheduler_list') # {}) =>
              /\ Len(scheduler_list') = Len(scheduler_list) + 1
              /\ ~NewPost.completed]_vars

\* C12 witness: a post has been sent and its successor is the one pending
\* action at the end of that tick.
C12_SuccessorScheduledWithSend ==
    /\ pc = "loop" /\ "post" \in ticked
    /\ Len(scheduler_list) = 2
    /\ scheduler_list[1].completed /\ ~scheduler_list[2].completed
    /\ Len(attempts) = 1 /\ attempts[1].outcome = "ok" /\ attempts[1].at = now

\* The reply with identity id is in the registry after the step, or the
\* step has already attempted to deliver it.
ReplyPresent(id, account, tweet_id) ==
    \/ \E j \in 1..Len(scheduled_replies') :
          /\ scheduled_replies'[j].id = id
          /\ scheduled_replies'[j].target_account = account
          /\ scheduled_replies'[j].tweet_id = tweet_id
    \/ \E j \in 1..Len(attempts') :
          attempts'[j].unit = "reply" /\ attempts'[j].id = id

\* C13: for every latest post a poll finds, if its id differs from the id
\* last seen for the account, exactly one new reply to that post is
\* scheduled and the last-seen id becomes that id; if it is the id last
\* seen, no reply is scheduled.  No other reply is created.
C13_OneReplyPerNewPost ==
    [][ReplierTick =>
          /\ \A k \in 1..Len(polls') :
                LET p == polls'[k]
                IN  /\ last_tweets'[p.account] = p.tweet_id
                    /\ p.tweet_id # last_tweets[p.account] =>
                           /\ p.reply >= nextId /\ p.reply < nextId'
                           /\ ReplyPresent(p.reply, p.account, p.tweet_id)
                           /\ \A j \in 1..Len(polls') :
                                  polls'[j].reply = p.reply => j = k
                    /\ p.tweet_id = last_tweets[p.account] => p.reply = 0
          /\ nextId' - nextId =
                Cardinality({k \in 1..Len(polls') :
                                polls'[k].tweet_id # last_tweets[polls'[k].account]})
          /\ \A j \in 1..Len(scheduled_replies') :
                scheduled_replies'[j].id >= nextId =>
                    \E k \in 1..Len(polls') :
                        polls'[k].reply = scheduled_replies'[j].id]_vars

\* C13 witness: one poll has found a new latest post on one account, for
\* which it scheduled a reply, and on the other account the post it had
\* seen before, for which it scheduled none.
C13_NewAndSeenPostsPolled ==
    \E k, j \in 1..Len(polls) :
        /\ polls[k].reply # 0 /\ polls[k].last # None
        /\ polls[j].reply = 0 /\ polls[j].tweet_id = polls[j].last

\* C14: every reply is scheduled, at the time t of the poll that creates
\* it, for t + 60 seconds or later.
C14_ReplyDueAfterFirstDelay ==
    \A k \in 1..Len(polls) :
        polls[k].reply # 0 => polls[k].time >= polls[k].at + FirstReplyDelay

\* C15: a reply scheduled while other replies are pending is due no earlier
\* than the latest of their due times plus the reply spacing, and two
\* replies scheduled by the same poll are at least one spacing apart.
C15_RepliesSpacedApart ==
    [][ReplierTick =>
          \A k \in 1..Len(polls') :
              polls'[k].reply # 0 =>
                  /\ \A i \in 1..Len(scheduled_replies) :
                         polls'[k].time >= scheduled_replies[i].scheduled_time
                                              + reply_interval(DEBUGGING)
                  /\ \A j \in 1..(k - 1) :
                         polls'[j].reply # 0 =>
                             polls'[k].time >= polls'[j].time
                                                  + reply_interval(DEBUGGING)]_vars

\* C15 witness: outside the debugging mode one poll has found a new post on
\* each of the two accounts and scheduled the two replies ten minutes apart.
C15_TwoRepliesFromOnePoll ==
    /\ ~DEBUGGING /\ Len(polls) = 2
    /\ polls[1].reply # 0 /\ polls[2].reply # 0
    /\ polls[2].time = polls[1].time + ProdReplyInterval
    /\ Len(scheduled_replies) = 2

----------------------------------------------------------------------------
(* Startup, shutdown and the timing of the loop *)

\* The stages of startup in their order, and what has happened at each.
StartupOrdered ==
    /\ pc = "heartbeat" =>
           ~loaded /\ ~active /\ ~running /\ shutdowns = 0 /\ heartbeat # "self"
    /\ pc = "load" => heartbeat = "self" /\ ~loaded /\ ~active /\ ~running
    /\ pc = "start" => heartbeat = "self" /\ loaded /\ ~active /\ ~running
    /\ pc \in {"loop", "execute", "done"} => loaded
    /\ pc = "exit1" =>
           /\ ~loaded /\ ~active /\ ~running /\ ticked = {}
           /\ scheduler_list = << >> /\ scheduled_replies = << >>
           /\ heartbeat # "self"

ShutdownStep == shutdowns' = shutdowns + 1

\* C17: every call of shutdown() leaves the replier inactive, its registry
\* and last-seen map empty and the heartbeat lock absent, and a call that
\* follows another call changes nothing of this.
C17_ShutdownIdempotent ==
    [][ShutdownStep =>
          /\ ~active' /\ scheduled_replies' = << >>
          /\ last_tweets' = [a \in AccountSet |-> None]
          /\ heartbeat' = "absent"
          /\ shutdowns >= 1 =>
                 /\ active' = active
                 /\ scheduled_replies' = scheduled_replies
                 /\ last_tweets' = last_tweets
                 /\ heartbeat' = heartbeat]_vars

\* C17 witness: shutdown() has been called twice on a started instance.
C17_ShutDownTwice ==
    shutdowns = 2 /\ loaded /\ ~active /\ heartbeat = "absent"

\* C18: the sleep after a cycle is the remainder of the interval of 1000 ms:
\* never negative, 0 when the cycle took the interval or longer, and one
\* sleep per call of execute.
C18_SleepIsRemainderOfInterval ==
    /\ Len(cycles) <= 1
    /\ \A i \in 1..Len(cycles) :
           /\ cycles[i].sleep >= 0
           /\ cycles[i].elapsed >= TICK => cycles[i].sleep = 0
           /\ cycles[i].elapsed < TICK =>
                  cycles[i].sleep = TICK - cycles[i].elapsed
           /\ cycles[i].elapsed + cycles[i].sleep >= TICK

\* C18 witness: a cycle has overrun the interval and no sleep followed it.
C18_OverrunNotSlept ==
    /\ pc = "loop" /\ Len(cycles) = 1
    /\ cycles[1].elapsed > TICK /\ cycles[1].sleep = 0

----------------------------------------------------------------------------
(* Content generation and the previous post *)

GenerationSet == {generations'[k] : k \in 1..Len(generations')}

\* C19: a tick that sees a non-completed action without content calls the
\* generator for it, and when the generator fails the action keeps a null
\* content and its due time, backoff and retry count are unchanged.
C19_FailedGenerationRetried ==
    [][/\ PosterTick =>
            \A i \in 1..Len(scheduler_list) :
                (~scheduler_list[i].completed /\ scheduler_list[i].content = None) =>
                    \E g \in GenerationSet :
                        /\ g.unit = "post" /\ g.id = i
                        /\ g.content = None =>
                               scheduler_list'[i] = scheduler_list[i]
       /\ ReplierTick =>
            \A i \in 1..Len(scheduled_replies) :
                (~scheduled_replies[i].completed
                    /\ scheduled_replies[i].content = None) =>
                    \E g \in GenerationSet :
                        g.unit = "reply" /\ g.id = scheduled_replies[i].id]_vars

CompletedPosts == {i \in 1..Len(scheduler_list) : scheduler_list[i].completed}

----------------------------------------------------------------------------
(* Failures: termination, propagation and interference *)

\* C21: every failed delivery uses up one of the action's max_retries
\* attempts, and the action whose attempts are used up is removed from its
\* registry; so no action is attempted more than max_retries times.
C21_FailuresBoundedByCeiling ==
    \A a \in AttemptSet :
        a.outcome # "ok" =>
            IF a.unit = "reply"
            THEN /\ a.retries < max_retries
                 /\ a.after.retries = a.retries + 1
                 /\ a.after.retries >= max_retries =>
                        \A i \in 1..Len(scheduled_replies) :
                            scheduled_replies[i].id # a.id
            ELSE /\ FailuresOf(a.backoff) < max_retries
                 /\ FailuresOf(a.after.backoff_time) = FailuresOf(a.backoff) + 1
                 /\ FailuresOf(a.after.backoff_time) >= max_retries =>
                        a.id \notin ActivePosts

C23_RegistryMutatedOnlyByOwnTick ==
    [][/\ (active /\ scheduled_replies' # scheduled_replies) => ReplierTick
       /\ scheduler_list' # scheduler_list => PosterTick]_vars

----------------------------------------------------------------------------
(* Delivery *)

----------------------------------------------------------------------------
(* The replier's registry and its polls *)

\* C25: any two pending replies of the registry are due at least the
\* reply spacing apart.
C25_PendingRepliesSpaced ==
    \A i, j \in 1..Len(scheduled_replies) :
        (i < j /\ ~scheduled_replies[i].completed /\ ~scheduled_replies[j].completed) =>
            \/ scheduled_replies[j].scheduled_time - scheduled_replies[i].scheduled_time
                   >= reply_interval(DEBUGGING)
            \/ scheduled_replies[i].scheduled_time - scheduled_replies[j].scheduled_time
                   >= reply_interval(DEBUGGING)

\* A step in which the replier queried an account or did what only a poll
\* does.
Polled ==
    \/ last_check_time' # last_check_time
    \/ poll_log' # << >> \/ polls' # << >>
    \/ nextId' # nextId \/ last_tweets' # last_tweets

C27_DeliveredAtMostOnce ==
    \A a \in AttemptSet : a.called => ~a.delivered

\* C28: every event of scheduled_replies has completed = false and
\* retries < max_retries, and no attempt removes its event from the registry
\* twice.
C28_RepliesPendingBelowCeiling ==
    /\ \A i \in 1..Len(scheduled_replies) :
           /\ ~scheduled_replies[i].completed
           /\ scheduled_replies[i].retries < max_retries
    /\ \A a \in AttemptSet : a.removals <= 1

\* C28 witness: the third delivery of a reply has failed on a rate limit
\* and the reply has been removed, once.
C28_ExhaustedReplyRemoved ==
    \E a \in AttemptSet :
        /\ a.unit = "reply" /\ a.after.retries = max_retries /\ a.removals = 1
        /\ \A i \in 1..Len(scheduled_replies) : scheduled_replies[i].id # a.id

\* The reply events the state holds: those of the registry and those the
\* last tick attempted.
ReplyStates ==
    {scheduled_replies[i] : i \in 1..Len(scheduled_replies)}
    \cup {a.after : a \in {b \in AttemptSet : b.unit = "reply"}}

\* C29: for every reply event backoff_time = 0 exactly when retries = 0,
\* and otherwise backoff_time = 5 * 2^(retries - 1); backoff_time is at
\* most 20 minutes.
C29_BackoffTiedToRetries ==
    \A e \in ReplyStates :
        /\ e.backoff_time = 0 <=> e.retries = 0
        /\ e.retries > 0 => e.backoff_time = BackoffStart * Pow2(e.retries - 1)
        /\ e.backoff_time <= BackoffStart * Pow2(max_retries - 1)

\* C29 witness: a reply of the registry has failed twice and has a backoff
\* of 10 minutes.
C29_TwiceFailedReply ==
    \E i \in 1..Len(scheduled_replies) :
        /\ scheduled_replies[i].retries = 2
        /\ scheduled_replies[i].backoff_time = BackoffStart * BackoffFactor

ErrorEnds == {"TooManyRequests", "Error"}

\* C30: in a poll the accounts are queried in their order; a query that
\* raises a non-rate-limit error is followed by the query of the next
\* account, a query that raises a rate limit is the last of the round; the
\* poll sets last_check_time to now in either case, and the tick still
\* attempts every reply that was scheduled before and is due.
C30_PollErrorsSkipOrEndRound ==
    [][ReplierTick =>
          /\ \A k \in 1..Len(poll_log') :
                /\ poll_log'[k].account = Accounts[k]
                /\ (poll_log'[k].outcome = "Error" /\ k < Len(Accounts)) =>
                       Len(poll_log') > k
                /\ poll_log'[k].outcome = "TooManyRequests" =>
                       Len(poll_log') = k
          /\ poll_log' # << >> => last_check_time' = now
          /\ (\E k \in 1..Len(poll_log') : poll_log'[k].outcome \in ErrorEnds) =>
                \A i \in 1..Len(scheduled_replies) :
                    ReplyDue(scheduled_replies[i], now) =>
                        \E j \in 1..Len(attempts') :
                            /\ attempts'[j].unit = "reply"
                            /\ attempts'[j].id = scheduled_replies[i].id
                            /\ attempts'[j].at = now]_vars

\* C30 witness: in one tick the query of the first account has raised a
\* non-rate-limit error, the second account has been queried and a reply
\* to its new post scheduled, and a reply scheduled by an earlier poll has
\* been attempted.
C30_ErrorSkippedAndReplyProcessed ==
    /\ Len(poll_log) = 2
    /\ poll_log[1].outcome = "Error" /\ poll_log[2].outcome = "returned"
    /\ \E k \in 1..Len(polls) :
          polls[k].account = Accounts[2] /\ polls[k].reply # 0
    /\ \E a \in AttemptSet :
          a.unit = "reply" /\ a.at = now /\ a.due < last_check_time
    /\ last_check_time = now

\* The instance found the heartbeat lock of another instance at startup.
Refused == pc = "heartbeat" /\ ~start_heartbeat_ok(heartbeat)

\* C31: a start refused because the heartbeat lock exists ends in exit code
\* 1 without a call of shutdown(): the step leaves the lock of the other
\* instance in place and shuts no unit down, and the lock is still there,
\* with no shutdown counted, once the process has exited.
C31_RefusedStartKeepsLock ==
    /\ [][Refused =>
             /\ pc' = "exit1"
             /\ heartbeat' = heartbeat
             /\ shutdowns' = shutdowns
             /\ UNCHANGED <<active, loaded, scheduled_replies, last_tweets>>]_vars
    /\ []((pc = "exit1" /\ ~loaded /\ shutdowns = 0) => heartbeat = "other")
    /\ [](heartbeat = "other" => shutdowns = 0)

\* C31 witness: the refused instance has exited with code 1, the lock of
\* the other instance is in place and shutdown() was never called.
C31_ExitedLockInPlace ==
    pc = "exit1" /\ heartbeat = "other" /\ shutdowns = 0 /\ ~loaded

\* C32: a poll that finds a latest post on an account with no last-seen
\* record schedules a reply to that post; and a step that sets the
\* last-seen id of an account is a tick of the replier whose poll appended
\* a reply to that id for that account.  Every other change of last_tweets
\* clears a record.
C32_LastSeenSetOnlyWithReply ==
    /\ [][ReplierTick =>
             \A k \in 1..Len(polls') :
                 LET p == polls'[k]
                 IN  p.last = None =>
                        /\ last_tweets[p.account] = None
                        /\ p.reply >= nextId /\ p.reply < nextId'
                        /\ ReplyPresent(p.reply, p.account, p.tweet_id)]_vars
    /\ [][\A a \in AccountSet :
             (last_tweets'[a] # last_tweets[a] /\ last_tweets'[a] # None) =>
                 /\ ReplierTick
                 /\ \E k \in 1..Len(polls') :
                        /\ polls'[k].account = a
                        /\ polls'[k].tweet_id = last_tweets'[a]
                        /\ polls'[k].reply >= nextId
                        /\ polls'[k].reply < nextId'
                        /\ ReplyPresent(polls'[k].reply, a, last_tweets'[a])]_vars

\* C32 witness: the first poll of an account that had no last-seen record
\* found a latest post, scheduled a reply to it that is in the registry,
\* and recorded the post's id as last seen.
C32_FirstPollScheduledReply ==
    \E k \in 1..Len(polls) :
        /\ polls[k].last = None
        /\ last_tweets[polls[k].account] = polls[k].tweet_id
        /\ \E j \in 1..Len(scheduled_replies) :
               /\ scheduled_replies[j].id = polls[k].reply
               /\ scheduled_replies[j].target_account = polls[k].account
               /\ scheduled_replies[j].tweet_id = polls[k].tweet_id

====
